---- MODULE Spec2Model ----
(***************************************************************************)
(* Model of SimpleOrbits.py: an N-body gravity simulation stepped once per *)
(* animation frame, with a bounded position trail per body.                *)
(*                                                                         *)
(* Numbers.  Python floats are modelled by integers counted in a fixed     *)
(* unit.  Additions, subtractions and products of modelled values are      *)
(* exact; every operation that rounds in floating point (true division,    *)
(* math.sqrt, the trigonometric projection) rounds down to the unit.  The  *)
(* float type has a largest finite magnitude: it is FloatMax here, and     *)
(* float ** 2 raises OverflowError when its result would exceed it.        *)
(* Masses, lengths and times are counted in units chosen so that G and     *)
(* time_step are small integers.                                           *)
(***************************************************************************)
EXTENDS Integers, Sequences, FiniteSets, TLC

\* ------------------------------------------------------------------ bounds
MaxBodies == 3        \* largest body collection explored
MaxFrames == 4        \* frames explored by Spec
MaxFramesLong == 601  \* frames explored by SpecLong (trail fills and rotates)
RootMax == 10000      \* largest magnitude whose square is a finite float
Tol == 1              \* tolerance of comparisons: one rounding unit

\* --------------------------------------------------------------- constants
G == 667              \* gravitational constant, in model units
time_step == 2        \* seconds per frame (600 * 60), in model units
TrailCap == 500       \* trail length

FloatMax == RootMax * RootMax
Far == RootMax + 1    \* a finite coordinate whose square is not finite

VARIABLES
    bodies,    \* the list `bodies`: records mass, x, y, vx, vy, trail
    segs,      \* per body, the segments last given to trails[i].set_segments
    colors,    \* per body, the alphas last given to trails[i].set_colors
    started,   \* init() has been called by the animation
    frame,     \* number of completed calls of update(frame)
    err,       \* the exception that ended the animation, or "none"
    forces,    \* the list `forces` of the last completed update
    visits,    \* per body, the `other` indices passed to
               \* compute_gravitational_force in the last completed update
    prev,      \* history: `bodies` as it was before the last completed update
    recorded   \* history: per body, every position appended to its trail

vars == <<bodies, segs, colors, started, frame, err, forces, visits, prev, recorded>>

\* ------------------------------------------------------------- arithmetic
Abs(n) == IF n < 0 THEN -n ELSE n

Min(a, b) == IF a <= b THEN a ELSE b

RECURSIVE SqrtSearch(_, _, _)
SqrtSearch(n, lo, hi) ==
    IF lo >= hi THEN lo
    ELSE LET mid == (lo + hi + 1) \div 2
         IN IF mid * mid <= n THEN SqrtSearch(n, mid, hi)
            ELSE SqrtSearch(n, lo, mid - 1)

\* math.sqrt, rounded down to the unit (n <= 2 * FloatMax)
sqrt(n) == SqrtSearch(n, 0, 2 * RootMax)

\* float ** 2 raises OverflowError when the result is out of range
PowOverflows(d) == Abs(d) > RootMax

\* ------------------------------------------------------------------ Body
Body(mass, x, y, vx, vy) ==
    [mass |-> mass, x |-> x, y |-> y, vx |-> vx, vy |-> vy, trail |-> << >>]

Returned(fx, fy) == [exc |-> "none", fx |-> fx, fy |-> fy]

Raised(e) == [exc |-> e, fx |-> 0, fy |-> 0]

\* A mutant of compute_gravitational_force: the distance == 0 test is missing
compute_gravitational_force_unguarded(self, other) ==
    LET dx == other.x - self.x
        dy == other.y - self.y
    IN  IF PowOverflows(dx) \/ PowOverflows(dy) THEN Raised("OverflowError")
        ELSE
        LET distance == sqrt(dx * dx + dy * dy)
        IN  IF distance * distance = 0 THEN Raised("ZeroDivisionError")
            ELSE
            LET force == (G * self.mass * other.mass) \div (distance * distance)
            IN  Returned((dx * force) \div distance, (dy * force) \div distance)

\* A mutant of compute_gravitational_force: other.mass is left out
compute_gravitational_force_one_mass(self, other) ==
    LET dx == other.x - self.x
        dy == other.y - self.y
    IN  IF PowOverflows(dx) \/ PowOverflows(dy) THEN Raised("OverflowError")
        ELSE
        LET distance == sqrt(dx * dx + dy * dy)
        IN  IF distance = 0 THEN Returned(0, 0)
            ELSE
            LET force == (G * self.mass) \div (distance * distance)
            IN  Returned((dx * force) \div distance, (dy * force) \div distance)

\* Body.compute_gravitational_force.  cos(atan2(dy, dx)) * force is the
\* projection force * dx / distance, and sin(...) * force is
\* force * dy / distance, each rounded once.
compute_gravitational_force(self, other) ==
    LET dx == other.x - self.x
        dy == other.y - self.y
    IN  IF PowOverflows(dx) \/ PowOverflows(dy) THEN Raised("OverflowError")
        ELSE
        LET distance == sqrt(dx * dx + dy * dy)
        IN  IF distance = 0 THEN Returned(0, 0)
            ELSE IF distance * distance = 0 THEN Raised("ZeroDivisionError")
            ELSE
            LET force == (G * self.mass * other.mass) \div (distance * distance)
            IN  Returned((dx * force) \div distance, (dy * force) \div distance)

\* A mutant of Body_update: the position advances by the pre-step velocity
Body_update_explicit(self, fx, fy, dt) ==
    LET ax == fx \div self.mass
        ay == fy \div self.mass
    IN  [self EXCEPT !.vx = self.vx + ax * dt,
                     !.vy = self.vy + ay * dt,
                     !.x = self.x + self.vx * dt,
                     !.y = self.y + self.vy * dt]

\* A mutant of Body_update: the position advances by the velocity, not by
\* velocity * dt
Body_update_no_dt(self, fx, fy, dt) ==
    LET ax == fx \div self.mass
        ay == fy \div self.mass
        vx == self.vx + ax * dt
        vy == self.vy + ay * dt
    IN  [self EXCEPT !.vx = vx,
                     !.vy = vy,
                     !.x = self.x + vx,
                     !.y = self.y + vy]

\* Body.update.  mass is positive in every state (see Init), so the two
\* divisions never raise.
Body_update(self, fx, fy, dt) ==
    LET ax == fx \div self.mass
        ay == fy \div self.mass
        vx == self.vx + ax * dt
        vy == self.vy + ay * dt
    IN  [self EXCEPT !.vx = vx,
                     !.vy = vy,
                     !.x = self.x + vx * dt,
                     !.y = self.y + vy * dt]


\* --------------------------------------------------------- trail recording
\* A mutant of TrailRecord: the newest entry is dropped instead of the oldest
TrailRecord_pop_last(trail, p) ==
    LET t == Append(trail, p)
    IN  IF Len(t) > TrailCap THEN SubSeq(t, 1, Len(t) - 1) ELSE t

\* body.trail.append((body.x, body.y)); pop(0) when longer than the capacity
TrailRecord(trail, p) ==
    LET t == Append(trail, p)
    IN  IF Len(t) > TrailCap THEN Tail(t) ELSE t

\* A mutant of segment_alphas: the weight is j / n instead of (j + 1) / n
segment_alphas_from_zero(n) == [j \in 1..n |-> <<j - 1, n>>]

\* alphas = [(j + 1) / len(segments) for j in range(len(segments))].  A weight
\* is kept as the fraction <<numerator, denominator>>; the list index here is
\* the source's j plus one.
segment_alphas(n) == [j \in 1..n |-> <<j, n>>]

\* A mutant of TrailDraw: segments are built only from three points on
TrailDraw_three_points(trail, oldcolors) ==
    IF Len(trail) > 2
    THEN LET segments == [j \in 1..(Len(trail) - 1) |-> SubSeq(trail, j, j + 1)]
         IN  [segments |-> segments, colors |-> segment_alphas(Len(segments))]
    ELSE [segments |-> << >>, colors |-> oldcolors]

\* The trail-line part of update: the segments and alphas given to trails[i].
\* With fewer than two points the segments are cleared and the colours kept.
TrailDraw(trail, oldcolors) ==
    IF Len(trail) >= 2
    THEN LET segments == [j \in 1..(Len(trail) - 1) |-> SubSeq(trail, j, j + 1)]
         IN  [segments |-> segments, colors |-> segment_alphas(Len(segments))]
    ELSE [segments |-> << >>, colors |-> oldcolors]

\* ------------------------------------------------------------ update(frame)
\* A mutant of SameBody: bodies are compared by their state, not by identity
SameBody_by_state(bs, i, j) == bs[i] = bs[j]

\* `body == other`: Body defines no __eq__, so == is object identity, and the
\* list holds each object once: two entries are the same body iff they are
\* the same entry.
SameBody(bs, i, j) == i = j

\* The inner loop of the force pass from `other` index j on: the running
\* (total_fx, total_fy), or the exception that ends it.
RECURSIVE Accumulate(_, _, _, _)
Accumulate(bs, i, j, total) ==
    IF j > Len(bs) THEN total
    ELSE IF SameBody(bs, i, j) THEN Accumulate(bs, i, j + 1, total)
    ELSE LET f == compute_gravitational_force(bs[i], bs[j])
         IN  IF f.exc # "none" THEN f
             ELSE Accumulate(bs, i, j + 1,
                             Returned(total.fx + f.fx, total.fy + f.fy))

\* The `other` indices on which the inner loop calls
\* compute_gravitational_force, in call order.
RECURSIVE Visited(_, _, _)
Visited(bs, i, j) ==
    IF j > Len(bs) THEN << >>
    ELSE IF SameBody(bs, i, j) THEN Visited(bs, i, j + 1)
    ELSE <<j>> \o Visited(bs, i, j + 1)

\* The force pass: one result per body
force_loop(bs) == [i \in 1..Len(bs) |-> Accumulate(bs, i, 1, Returned(0, 0))]

\* The exception the force pass raises, or "none"
force_loop_exc(bs) ==
    LET rs == force_loop(bs)
    IN  IF \E i \in 1..Len(bs) : rs[i].exc # "none"
        THEN rs[CHOOSE i \in 1..Len(bs) :
                    /\ rs[i].exc # "none"
                    /\ \A k \in 1..(i - 1) : rs[k].exc = "none"].exc
        ELSE "none"

\* One body's turn in the update pass: integrate, then record the position
BodyFrame(b, f) ==
    LET b1 == Body_update(b, f[1], f[2], time_step)
    IN  [b1 EXCEPT !.trail = TrailRecord(b1.trail, <<b1.x, b1.y>>)]

\* A mutant of update_pass: one sweep, each body's force computed from the
\* list as the bodies before it left it
RECURSIVE Sweep(_, _, _)
Sweep(bs, i, fs) ==
    IF i > Len(bs) THEN [forces |-> fs, bodies |-> bs]
    ELSE LET r == Accumulate(bs, i, 1, Returned(0, 0))
             f == <<r.fx, r.fy>>
         IN  Sweep([bs EXCEPT ![i] = BodyFrame(bs[i], f)], i + 1, Append(fs, f))

update_pass_interleaved(bs) == Sweep(bs, 1, << >>)

\* The two passes of update: the list `forces`, then every body updated with
\* its entry of that list.
update_pass(bs) ==
    LET rs == force_loop(bs)
        fs == [i \in 1..Len(bs) |-> <<rs[i].fx, rs[i].fy>>]
    IN  [forces |-> fs,
         bodies |-> [i \in 1..Len(bs) |-> BodyFrame(bs[i], fs[i])]]

\* -------------------------------------------------------------- behaviour
\* The bodies a collection is drawn from: positive masses, resting and
\* moving bodies, positions that coincide, that are near, and one far away.
BodyStates ==
    {Body(1, 0, 0, 0, 0),
     Body(2, 0, 0, 0, 0),
     Body(1, 2, 1, 1, -1),
     Body(2, 2, 1, 0, 0),
     Body(1, -1, 3, 0, 0),
     Body(2, -1, 3, 1, -1),
     Body(1, Far, 0, 0, 0),
     Body(2, Far, 0, 1, -1)}

\* The collections SpecLong starts from: one moving body, a resting pair, a
\* coincident pair.
LongLists ==
    {<<Body(1, 0, 0, 1, -1)>>,
     <<Body(2, 2, 1, 0, 0)>>,
     <<Body(2, 0, 0, 0, 0), Body(1, 2, 1, 0, 0)>>,
     <<Body(1, 2, 1, 1, -1), Body(1, 2, 1, 1, -1)>>}

InitWith(lists) ==
    /\ bodies \in lists
    /\ segs = [i \in 1..Len(bodies) |-> << >>]
    /\ colors = [i \in 1..Len(bodies) |-> << <<1, 1>> >>]
    /\ started = FALSE
    /\ frame = 0
    /\ err = "none"
    /\ forces = << >>
    /\ visits = << >>
    /\ prev = bodies
    /\ recorded = [i \in 1..Len(bodies) |-> << >>]

Init == InitWith(UNION {[1..n -> BodyStates] : n \in 1..MaxBodies})

InitLong == InitWith(LongLists)

\* init(): the animation's init_func clears every trail line
init ==
    /\ err = "none"
    /\ started' = TRUE
    /\ segs' = [i \in 1..Len(bodies) |-> << >>]
    /\ UNCHANGED <<bodies, colors, frame, err, forces, visits, prev, recorded>>

\* update(frame): one animation frame
update(limit) ==
    /\ started
    /\ err = "none"
    /\ frame < limit
    /\ LET exc == force_loop_exc(bodies)
       IN  IF exc # "none"
           THEN /\ err' = exc
                /\ UNCHANGED <<bodies, segs, colors, started, frame, forces,
                               visits, prev, recorded>>
           ELSE LET r == update_pass(bodies)
                    draw == [i \in 1..Len(bodies) |->
                                TrailDraw(r.bodies[i].trail, colors[i])]
                IN  /\ bodies' = r.bodies
                    /\ forces' = r.forces
                    /\ visits' = [i \in 1..Len(bodies) |-> Visited(bodies, i, 1)]
                    /\ prev' = bodies
                    /\ recorded' = [i \in 1..Len(bodies) |->
                                      Append(recorded[i],
                                             <<r.bodies[i].x, r.bodies[i].y>>)]
                    /\ segs' = [i \in 1..Len(bodies) |-> draw[i].segments]
                    /\ colors' = [i \in 1..Len(bodies) |-> draw[i].colors]
                    /\ frame' = frame + 1
                    /\ UNCHANGED <<started, err>>

Step == update(MaxFrames)

StepLong == update(MaxFramesLong)

Next == init \/ Step

NextLong == init \/ StepLong

Spec == Init /\ [][Next]_vars

SpecLong == InitLong /\ [][NextLong]_vars

\* Values stay inside the float range, so no operation saturates to inf
InRange ==
    \A i \in 1..Len(bodies) :
        /\ Abs(bodies[i].x) <= FloatMax /\ Abs(bodies[i].y) <= FloatMax
        /\ Abs(bodies[i].vx) <= FloatMax /\ Abs(bodies[i].vy) <= FloatMax


\* --------------------------------------------------------------- properties
\* The physical state of a body
Phys(b) == <<b.mass, b.x, b.y, b.vx, b.vy>>

\* The sum, over the set S of indices, of the pairwise force on bs[i]
RECURSIVE PairwiseSum(_, _, _)
PairwiseSum(bs, i, S) ==
    IF S = {} THEN <<0, 0>>
    ELSE LET j == CHOOSE k \in S : TRUE
             f == compute_gravitational_force(bs[i], bs[j])
             rest == PairwiseSum(bs, i, S \ {j})
         IN  <<f.fx + rest[1], f.fy + rest[2]>>

\* The net force on bs[i] from every other body of the snapshot bs
NetForce(bs, i) == PairwiseSum(bs, i, (1..Len(bs)) \ {i})

\* The list as body i would see it in a one-sweep update: the bodies before
\* it already moved, the others not yet
MidSweep(i) == [k \in 1..Len(bodies) |-> IF k < i THEN bodies[k] ELSE prev[k]]

\* C1: after every completed update the force used for each body is its net
\* force in the pre-step snapshot, and every body is the pre-step body
\* integrated with that force: no force sees a post-step position.
C1_Simultaneity ==
    frame > 0 =>
        \A i \in 1..Len(bodies) :
            /\ forces[i] = NetForce(prev, i)
            /\ Phys(bodies[i]) =
                   Phys(Body_update(prev[i], NetForce(prev, i)[1],
                                    NetForce(prev, i)[2], time_step))

\* C1 witness: three bodies have been stepped, and for some body the force
\* it would get from the half-updated list differs from the one used.
C1_Witness ==
    /\ frame > 0
    /\ Len(bodies) >= 3
    /\ \E i \in 2..Len(bodies) :
           /\ force_loop_exc(MidSweep(i)) = "none"
           /\ NetForce(MidSweep(i), i) # forces[i]

\* The last min(k, cap) entries of a sequence of length k
LastEntries(s, cap) == SubSeq(s, Len(s) - Min(Len(s), cap) + 1, Len(s))

\* C2: one position is recorded per update, and after k records the trail is
\* exactly the min(k, 500) most recent ones in recording order; after 600
\* records it holds 500 and starts at the 101st.
C2_TrailBounded ==
    \A i \in 1..Len(bodies) :
        LET k == Len(recorded[i])
            trail == bodies[i].trail
        IN  /\ k = frame
            /\ Len(trail) = Min(k, TrailCap)
            /\ trail = LastEntries(recorded[i], TrailCap)
            /\ (k = 600 => Len(trail) = 500 /\ trail[1] = recorded[i][101])

\* C2 witness: 600 positions of a moving body were recorded, the trail holds
\* 500 and the oldest 100 are gone.
C2_Witness ==
    /\ frame = 600
    /\ Len(bodies[1].trail) = 500
    /\ bodies[1].trail[1] = recorded[1][101]
    /\ bodies[1].trail[500] = recorded[1][600]
    /\ \A j \in 1..100 : \A k \in 1..500 : recorded[1][j] # bodies[1].trail[k]

\* Two bodies at the same position
Coincident(a, b) == a.x = b.x /\ a.y = b.y

\* compute_gravitational_force is (0, 0), without an exception, on every
\* coincident pair of distinct bodies of the list bs
ZeroOnCoincident(bs) ==
    \A i, j \in 1..Len(bs) :
        (i # j /\ Coincident(bs[i], bs[j])) =>
            compute_gravitational_force(bs[i], bs[j]) = Returned(0, 0)

\* C3: on two distinct bodies at the same position, whatever their masses,
\* compute_gravitational_force returns (0, 0) and raises nothing.
C3_ZeroDistanceSafe == ZeroOnCoincident(bodies) /\ ZeroOnCoincident(prev)

\* C3 witness: the last update called compute_gravitational_force on two
\* coincident bodies of different mass.
C3_Witness ==
    /\ frame > 0
    /\ \E i, j \in 1..Len(prev) :
           /\ i # j
           /\ Coincident(prev[i], prev[j])
           /\ prev[i].mass # prev[j].mass
           /\ \E k \in 1..Len(visits[i]) : visits[i][k] = j

\* On every pair of distinct bodies of bs the two forces are opposite within
\* the tolerance, raise alike, and are both zero when the bodies coincide
SymmetricOn(bs) ==
    \A i, j \in 1..Len(bs) :
        i # j =>
            LET ab == compute_gravitational_force(bs[i], bs[j])
                ba == compute_gravitational_force(bs[j], bs[i])
            IN  /\ ab.exc = ba.exc
                /\ Abs(ab.fx + ba.fx) <= Tol
                /\ Abs(ab.fy + ba.fy) <= Tol
                /\ Coincident(bs[i], bs[j]) =>
                       (ab = Returned(0, 0) /\ ba = Returned(0, 0))

\* C4: the force on a from b is the negation of the force on b from a,
\* component by component within the tolerance; both are zero for coincident
\* bodies.
C4_Symmetry == SymmetricOn(bodies) /\ SymmetricOn(prev)

\* C4 witness: the last update computed a non-zero force between two bodies
\* of different mass, in both directions.
C4_Witness ==
    /\ frame > 0
    /\ \E i, j \in 1..Len(prev) :
           /\ i # j
           /\ prev[i].mass # prev[j].mass
           /\ compute_gravitational_force(prev[i], prev[j]).fx # 0
           /\ compute_gravitational_force(prev[i], prev[j]).fy # 0
           /\ \E k \in 1..Len(visits[i]) : visits[i][k] = j
           /\ \E k \in 1..Len(visits[j]) : visits[j][k] = i

\* C5 as stated: with a single body the net force is zero and neither the
\* velocity nor the position ever changes.
C5_Original ==
    [][Len(bodies) = 1 =>
          /\ (frame' = frame + 1 => forces'[1] = <<0, 0>>)
          /\ bodies'[1].vx = bodies[1].vx /\ bodies'[1].vy = bodies[1].vy
          /\ bodies'[1].x = bodies[1].x /\ bodies'[1].y = bodies[1].y]_vars

\* C5 amended: with a single body every update computes zero net force and
\* leaves the velocity unchanged; the position advances by velocity *
\* time_step per update, so it is unchanged only for a body at rest.
C5_SingleBody ==
    [][(Len(bodies) = 1 /\ frame' = frame + 1) =>
          /\ forces'[1] = <<0, 0>>
          /\ bodies'[1].vx = bodies[1].vx /\ bodies'[1].vy = bodies[1].vy
          /\ bodies'[1].x = bodies[1].x + bodies[1].vx * time_step
          /\ bodies'[1].y = bodies[1].y + bodies[1].vy * time_step]_vars

\* C5 witness: a single moving body has been stepped and has moved.
C5_Witness ==
    /\ Len(bodies) = 1
    /\ frame > 1
    /\ forces[1] = <<0, 0>>
    /\ bodies[1].vx # 0
    /\ bodies[1].x # prev[1].x

\* C6: an update sets the velocity to v + (F / mass) * dt, then the position
\* to p + v_new * dt with the velocity just set; the mass is unchanged.
C6_IntegrationOrder ==
    frame > 0 =>
        \A i \in 1..Len(bodies) :
            LET p == prev[i]
                b == bodies[i]
                f == forces[i]
            IN  /\ b.vx = p.vx + (f[1] \div p.mass) * time_step
                /\ b.vy = p.vy + (f[2] \div p.mass) * time_step
                /\ b.x = p.x + b.vx * time_step
                /\ b.y = p.y + b.vy * time_step
                /\ b.mass = p.mass

\* C6 witness: an update changed a body's velocity in both components, so
\* the pre-step and the new velocity give different positions.
C6_Witness ==
    /\ frame > 0
    /\ \E i \in 1..Len(bodies) :
           /\ bodies[i].vx # prev[i].vx
           /\ bodies[i].vy # prev[i].vy
           /\ prev[i].vx # 0

\* C7 as stated: no update over finite, well-formed bodies raises.
C7_NoFailure == err = "none"

\* The other indices in list order
AllOthers(n, i) == [k \in 1..(n - 1) |-> IF k < i THEN k ELSE k + 1]

\* C10: in every update the force pass calls compute_gravitational_force for
\* body i on every other body exactly once, in list order, never on itself,
\* and the net force is the sum of those pairwise forces; a distinct body
\* with the same mass, position and velocity is visited like any other.
C10_NetForce ==
    frame > 0 =>
        \A i \in 1..Len(bodies) :
            /\ visits[i] = AllOthers(Len(bodies), i)
            /\ forces[i] = NetForce(prev, i)

\* C10 witness: the last update ran on a list holding two distinct bodies of
\* identical state and a third body pulling on them, and visited the twin.
C10_Witness ==
    /\ frame > 0
    /\ \E i, j \in 1..Len(prev) :
           /\ i # j
           /\ prev[i] = prev[j]
           /\ \E k \in 1..Len(visits[i]) : visits[i][k] = j
           /\ forces[i] # <<0, 0>>

\* C8: for a trail of n >= 2 positions the alphas are (j + 1) / (n - 1) for
\* j = 0..n-2: strictly increasing, all positive, the newest exactly 1.
C8_TrailAlpha ==
    \A i \in 1..Len(bodies) :
        LET n == Len(bodies[i].trail)
            a == colors[i]
        IN  n >= 2 =>
                /\ Len(a) = n - 1
                /\ \A j \in 1..(n - 1) : a[j] = <<j, n - 1>>
                /\ \A j \in 1..(n - 1) : a[j][1] > 0 /\ a[j][2] > 0
                /\ \A j \in 1..(n - 2) : a[j][1] * a[j + 1][2] < a[j + 1][1] * a[j][2]
                /\ a[n - 1][1] = a[n - 1][2]

\* C8 witness: a trail of 10 positions has 9 alphas.
C8_Witness ==
    /\ Len(bodies[1].trail) = 10
    /\ Len(colors[1]) = 9
    /\ colors[1][1] = <<1, 9>>
    /\ colors[1][9] = <<9, 9>>

\* C9: the segments an update hands to the renderer for a trail of n
\* positions are the n - 1 pairs of consecutive positions, in order, when
\* n >= 2, and none when n < 2.
C9_TrailSegments ==
    [][frame' = frame + 1 =>
          \A i \in 1..Len(bodies) :
              LET t == bodies'[i].trail
                  n == Len(t)
              IN  /\ Len(segs'[i]) = (IF n >= 2 THEN n - 1 ELSE 0)
                  /\ \A j \in 1..Len(segs'[i]) : segs'[i][j] = <<t[j], t[j + 1]>>]_vars

\* C9 witness: a trail of 10 distinct positions was drawn as 9 segments.
C9_Witness ==
    /\ frame = 10
    /\ Len(bodies[1].trail) = 10
    /\ Len(segs[1]) = 9
    /\ segs[1][1] = <<bodies[1].trail[1], bodies[1].trail[2]>>
    /\ bodies[1].trail[1] # bodies[1].trail[2]

====
